---- MODULE Spec2Model ----
(***************************************************************************)
(* TikTok image upload service (src/src/index.ts).                         *)
(*                                                                         *)
(* An Express application: the middleware chain (cors, body parsers), the  *)
(* routes GET /health, GET / and POST /api/upload/tiktok (multer in front  *)
(* of an async handler) and the error handling middleware.  The upload     *)
(* handler awaits three times: the account query, the upstream fetch and   *)
(* the usage update; requests interleave at those points.                  *)
(***************************************************************************)
EXTENDS Integers, Sequences, FiniteSets, TLC

(* ------------------------------- bounds -------------------------------- *)

\* number of rows of the table tiktok_accounts
NumAccounts == 2
\* the clock stops admitting uploads once it has reached this value
MaxClock == 2

(* --------------------------- values and inputs ------------------------- *)

NULL == "null"
UNDEFINED == "undefined"
\* a timestamp column holding NULL
NoTime == 0 - 1
\* a timestamp later than every value the clock takes
Future == MaxClock + 10

AccountIds == 1 .. NumAccounts
\* the upload requests that may be in their handler at the same time
Slots == { 1, 2 }

\* multer limits.fileSize
fileSize == 10 * 1024 * 1024

tiktokApiUrl == "https://www.tiktok.com/api/upload/image/"
cdnPrefix == "https://p16-sg.tiktokcdn.com/obj/"
userAgent == "Mozilla/5.0 (Windows NT 10.0; Win64; x64) AppleWebKit/537.36 (KHTML, like Gecko) Chrome/131.0.0.0 Safari/537.36"
uploadPath == "/api/upload/tiktok"

\* corsOptions.origin: the default allowed origins (env.CORS_ALLOWED_ORIGINS unset)
defaultOrigins ==
    { "http://localhost:3000", "http://localhost:3001", "http://localhost:8080",
      "https://your-frontend-domain.com" }

NodeEnvs == { "development", "production" }

\* Origin header of a request: absent, an allowed origin, another origin
Origins == { UNDEFINED, "http://localhost:3000", "https://elsewhere.example" }

Routes == { "GET /health", "GET /", "POST /api/upload/tiktok" }

\* a MIME type is <<type, subtype>>, written type/subtype on the wire
MimeTypes == { <<"image", "png">>, <<"text", "plain">> }

\* the file part of a multipart body
FileParts ==
    [ fieldname : { "file", "avatar" },
      mimetype : MimeTypes,
      size : { fileSize, fileSize + 1 } ]

\* request bodies: none, JSON (well formed or not), multipart with or without a file part
Bodies ==
    { [ kind |-> k, parts |-> <<>> ] : k \in { "none", "json", "badjson", "multipart" } }
    \cup { [ kind |-> "multipart", parts |-> <<f>> ] : f \in FileParts }

\* a GET carries no body or a malformed one; a POST carries any of the bodies
Requests ==
    { req \in [ route : Routes, origin : Origins, body : Bodies ] :
        req.route = "POST /api/upload/tiktok" \/ req.body.kind \in { "none", "badjson" } }

\* the requests that are uploads of an acceptable file, or of no file at all
UploadRequests ==
    { req \in Requests :
        /\ req.route = "POST /api/upload/tiktok"
        /\ req.origin \in { UNDEFINED } \cup defaultOrigins
        /\ req.body.kind = "multipart"
        /\ \A i \in DOMAIN req.body.parts :
              /\ req.body.parts[i].fieldname = "file"
              /\ req.body.parts[i].mimetype = <<"image", "png">>
              /\ req.body.parts[i].size <= fileSize }

(* ------------------------------ responses ------------------------------ *)

\* a JSON response body; a key the handler leaves out holds UNDEFINED, -1 or <<>>
EmptyBody ==
    [ error |-> FALSE, success |-> FALSE, status |-> UNDEFINED, url |-> UNDEFINED,
      statusCode |-> 0 - 1, statusMessage |-> UNDEFINED, message |-> UNDEFINED,
      accountUsed |-> UNDEFINED, accountInfo |-> <<>>, accountError |-> UNDEFINED,
      tiktokApiResponse |-> <<>>, requestDetails |-> <<>>, originalError |-> <<>> ]

\* res.status(code).json(fields)
Json(code, fields) == [ status |-> code, body |-> fields @@ EmptyBody ]

NoError == [ name |-> "none", code |-> UNDEFINED, message |-> "" ]
Error(msg) == [ name |-> "Error", code |-> UNDEFINED, message |-> msg ]
MulterError(code, msg) == [ name |-> "MulterError", code |-> code, message |-> msg ]

\* a || b on strings: the empty string is falsy
OrElse(a, b) == IF a = "" \/ a = UNDEFINED \/ a = NULL THEN b ELSE a

(* ------------------------------ middleware ----------------------------- *)

\* env.CORS_ALLOWED_ORIGINS || defaultOrigins, with the variable unset
allowedOrigins == defaultOrigins

\* the origin check without the development bypass
corsOriginNoDevBypass(env, origin) ==
    IF origin = UNDEFINED THEN NoError
    ELSE IF origin \in allowedOrigins THEN NoError
    ELSE Error("Not allowed by CORS")

\* corsOptions.origin: the error handed to the callback, NoError when allowed
corsOrigin(env, origin) ==
    IF origin = UNDEFINED THEN NoError
    ELSE IF env = "development" THEN NoError
    ELSE IF origin \in allowedOrigins THEN NoError
    ELSE Error("Not allowed by CORS")

\* express.json / express.urlencoded: a malformed JSON body is passed to next(err)
bodyParser(body) ==
    IF body.kind = "badjson"
    THEN [ name |-> "SyntaxError", code |-> UNDEFINED, message |-> "Unexpected token in JSON" ]
    ELSE NoError

\* file.mimetype.startsWith('image/')
startsWithImage(mimetype) == mimetype[1] = "image"

fileFilter(file) ==
    IF startsWithImage(file.mimetype) THEN NoError
    ELSE Error("Only image files are allowed")

\* upload.single('file'): the error passed to next, or req.file (<<>> when undefined).
\* multer checks the field name, then calls fileFilter, then reads the bytes
\* against limits.fileSize.
uploadSingle(body) ==
    IF body.kind # "multipart" \/ body.parts = <<>>
    THEN [ error |-> NoError, file |-> <<>> ]
    ELSE LET f == body.parts[1] IN
         IF f.fieldname # "file"
         THEN [ error |-> MulterError("LIMIT_UNEXPECTED_FILE", "Unexpected field"), file |-> <<>> ]
         ELSE IF fileFilter(f) # NoError
         THEN [ error |-> fileFilter(f), file |-> <<>> ]
         ELSE IF f.size > fileSize
         THEN [ error |-> MulterError("LIMIT_FILE_SIZE", "File too large"), file |-> <<>> ]
         ELSE [ error |-> NoError, file |-> <<f>> ]

\* app.use((error, _req, res, _next) => ...)
errorMiddleware(error) ==
    IF error.name = "MulterError" /\ error.code = "LIMIT_FILE_SIZE"
    THEN Json(400, [ error |-> TRUE, message |-> "File too large. Maximum size is 10MB." ])
    ELSE Json(500, [ error |-> TRUE, message |-> OrElse(error.message, "Internal server error") ])

\* app.get('/health')
health(env) == Json(200, [ status |-> "ok" ])

\* app.get('/')
root == Json(200, [ message |-> "TikTok Upload Service" ])

\* the missing-file answer sent as a server error
noFileResponseAs500 ==
    Json(500, [ error |-> TRUE, url |-> uploadPath, statusCode |-> 500,
                statusMessage |-> "No file provided", message |-> "No file provided" ])

\* the handler's first check: if (!req.file)
noFileResponse ==
    Json(400, [ error |-> TRUE, url |-> uploadPath, statusCode |-> 400,
                statusMessage |-> "No file provided", message |-> "No file provided" ])

\* A request through the chain cors, body parsers, router, multer, up to the
\* handler's first await: the response written on the way (<<>> when none was)
\* and req.file.
pipeline(env, req) ==
    IF corsOrigin(env, req.origin) # NoError
    THEN [ response |-> << errorMiddleware(corsOrigin(env, req.origin)) >>, file |-> <<>> ]
    ELSE IF bodyParser(req.body) # NoError
    THEN [ response |-> << errorMiddleware(bodyParser(req.body)) >>, file |-> <<>> ]
    ELSE IF req.route = "GET /health"
    THEN [ response |-> << health(env) >>, file |-> <<>> ]
    ELSE IF req.route = "GET /"
    THEN [ response |-> << root >>, file |-> <<>> ]
    ELSE LET m == uploadSingle(req.body) IN
         IF m.error # NoError
         THEN [ response |-> << errorMiddleware(m.error) >>, file |-> <<>> ]
         ELSE IF m.file = <<>>
         THEN [ response |-> << noFileResponse >>, file |-> <<>> ]
         ELSE [ response |-> <<>>, file |-> m.file ]

(* ----------------------------- account rows ---------------------------- *)

nameOf(id) == "account-" \o ToString(id)

Row(id, st, csrf, sid, cnt, cool) ==
    [ id |-> id, name |-> nameOf(id), status |-> st, csrftoken |-> csrf,
      sid_guard_ads |-> sid, upload_count |-> cnt, last_upload_at |-> NoTime,
      cooldown_until |-> cool, updated_at |-> 0 ]

\* the upload_count values a row starts with
InitCounts == { 0, 1 }

\* the rows an account may start as: eligible rows, and rows that fail one
\* condition of eligibility while holding the lowest upload_count
InitRows(id) ==
    { Row(id, "active", "csrf-" \o ToString(id), "sid-" \o ToString(id), c, NoTime) :
        c \in InitCounts }
    \cup { Row(id, "active", "csrf-" \o ToString(id), "sid-" \o ToString(id), 0, Future) }
    \cup { Row(id, st, "csrf-" \o ToString(id), "sid-" \o ToString(id), 0, NoTime) :
        st \in { "disabled", "cooldown" } }
    \cup { Row(id, "active", NULL, "sid-" \o ToString(id), 0, NoTime),
           Row(id, "active", "csrf-" \o ToString(id), NULL, 0, NoTime) }

(* --------------------------- account selection ------------------------- *)

\* the filter with a condition on cooldown_until
EligibleOutOfCooldown(row) ==
    /\ row.status = "active"
    /\ row.csrftoken # NULL
    /\ row.sid_guard_ads # NULL
    /\ row.cooldown_until = NoTime

\* the filter without its status condition
EligibleTokensOnly(row) ==
    /\ row.csrftoken # NULL
    /\ row.sid_guard_ads # NULL

\* .eq('status', 'active').not('csrftoken', 'is', null).not('sid_guard_ads', 'is', null)
Eligible(row) ==
    /\ row.status = "active"
    /\ row.csrftoken # NULL
    /\ row.sid_guard_ads # NULL

\* the order with ascending: false
OrderedBeforeDescending(a, b) == a.upload_count >= b.upload_count

\* .order('upload_count', { ascending: true }): row a may come before row b
OrderedBefore(a, b) == a.upload_count <= b.upload_count

\* .limit(1): the ids the query may return first; ties are in no fixed order
firstRows(tbl) ==
    { id \in DOMAIN tbl :
        /\ Eligible(tbl[id])
        /\ \A other \in DOMAIN tbl : Eligible(tbl[other]) => OrderedBefore(tbl[id], tbl[other]) }

\* .single() over no row: data null and this error
noRowsError ==
    [ name |-> "PostgrestError", code |-> "PGRST116",
      message |-> "JSON object requested, multiple (or no) rows returned" ]

\* errors of the store itself (the second has no message)
StoreErrors ==
    { [ name |-> "PostgrestError", code |-> "08006", message |-> "connection failure" ],
      [ name |-> "PostgrestError", code |-> UNDEFINED, message |-> "" ] }

\* the { data, error } pairs the account query may resolve to
queryResults(tbl) ==
    { [ data |-> <<>>, error |-> e ] : e \in StoreErrors }
    \cup ( IF firstRows(tbl) = {}
           THEN { [ data |-> <<>>, error |-> noRowsError ] }
           ELSE { [ data |-> << tbl[id] >>, error |-> NoError ] : id \in firstRows(tbl) } )

\* if (accountError || !accountData)
selectionFailed(q) == q.error # NoError \/ q.data = <<>>

\* the answer without the fallback for an empty message
selectionFailureNoFallback(accountError) ==
    Json(500, [ error |-> TRUE, url |-> uploadPath, statusCode |-> 500,
                statusMessage |-> "No active TikTok account available",
                message |-> "No active TikTok account available",
                accountError |-> accountError.message ])

\* the 500 answer of a failed selection
selectionFailure(accountError) ==
    Json(500, [ error |-> TRUE, url |-> uploadPath, statusCode |-> 500,
                statusMessage |-> "No active TikTok account available",
                message |-> "No active TikTok account available",
                accountError |-> OrElse(accountError.message, "No account found") ])

(* ---------------------------- upstream call ---------------------------- *)

\* the headers of the outbound request
buildHeaders(account) ==
    [ csrf |-> account.csrftoken,
      Cookie |-> "tt_csrf_token=" \o account.csrftoken \o "; sid_guard=" \o account.sid_guard_ads,
      UserAgent |-> userAgent,
      Host |-> "www.tiktok.com" ]

\* JSON values the upstream may send
JsonObject(code, msg, data) ==
    [ type |-> "object", status_code |-> code, status_msg |-> msg, data |-> data ]
JsonNull == [ type |-> "null", status_code |-> 0 - 1, status_msg |-> UNDEFINED, data |-> <<>> ]
StringValue(str) ==
    [ type |-> "string", value |-> str, status_code |-> 0 - 1, status_msg |-> UNDEFINED,
      data |-> <<>> ]

\* status_code -1 and uri UNDEFINED stand for a missing key
JsonBodies ==
    { JsonObject(0, "", << [ uri |-> "abc" ] >>),
      JsonObject(0, "", << [ uri |-> "" ] >>),
      JsonObject(0, "", << [ uri |-> UNDEFINED ] >>),
      JsonObject(0, "", <<>>),
      JsonObject(7, "Permission Denied", <<>>),
      JsonObject(7, UNDEFINED, << [ uri |-> "abc" ] >>),
      JsonObject(0 - 1, UNDEFINED, << [ uri |-> "abc" ] >>),
      JsonNull }

\* a raw upstream body: what response.json() and response.text() would resolve to
\* (<<>> when the call rejects)
RawBodies ==
    { [ json |-> << j >>, text |-> <<>> ] : j \in JsonBodies }
    \cup { [ json |-> <<>>, text |-> << "<html>Forbidden</html>" >> ],
           [ json |-> <<>>, text |-> <<>> ] }

statusText(code) ==
    CASE code = 200 -> "OK"
      [] code = 299 -> ""
      [] code = 300 -> "Multiple Choices"
      [] OTHER -> "Forbidden"

\* every body under a 2xx status; under another status a refusal, a body
\* that reads as a success, and a page that is no JSON
UpstreamResponses ==
    { [ status |-> c, statusText |-> statusText(c), raw |-> b ] :
        c \in { 200, 299 }, b \in RawBodies }
    \cup { [ status |-> c, statusText |-> statusText(c), raw |-> b ] :
        c \in { 300, 403 },
        b \in { [ json |-> << JsonObject(7, "Permission Denied", <<>>) >>, text |-> <<>> ],
                [ json |-> << JsonObject(0, "", << [ uri |-> "abc" ] >>) >>, text |-> <<>> ],
                [ json |-> <<>>, text |-> << "<html>Forbidden</html>" >> ] } }

\* a success test that takes every status below 400
okBelow400(response) == response.status >= 200 /\ response.status < 400

\* response.ok
ok(response) == response.status >= 200 /\ response.status <= 299

\* try response.json(), catch: try response.text(), catch: the marker
parseBody(raw) ==
    IF raw.json # <<>> THEN raw.json[1]
    ELSE IF raw.text # <<>> THEN StringValue(raw.text[1])
    ELSE StringValue("Unable to parse response")

\* result.status_code === 0 && result.data?.uri
uploadSucceeded(result) ==
    /\ result.status_code = 0
    /\ result.data # <<>>
    /\ result.data[1].uri # UNDEFINED
    /\ result.data[1].uri # ""

\* the accountInfo object of the failure payloads
accountInfo(account) ==
    IF account = <<>> THEN <<>>
    ELSE << [ id |-> account[1].id, name |-> account[1].name,
              status |-> OrElse(account[1].status, "unknown"),
              uploadCount |-> account[1].upload_count,
              lastUploadAt |-> account[1].last_upload_at,
              cooldownUntil |-> account[1].cooldown_until ] >>

\* the requestDetails object of the failure payloads
requestDetails(account) ==
    << [ url |-> tiktokApiUrl, method |-> "POST",
         csrf |-> IF account = <<>> THEN "missing" ELSE OrElse(account[1].csrftoken, "missing"),
         Cookie |-> "tt_csrf_token="
                    \o (IF account = <<>> THEN "missing" ELSE OrElse(account[1].csrftoken, "missing"))
                    \o "; sid_guard="
                    \o (IF account = <<>> THEN "missing" ELSE OrElse(account[1].sid_guard_ads, "missing")) ] >>

\* if (!response.ok)
transportFailure(account, response, responseBody) ==
    Json(response.status,
         [ error |-> TRUE, url |-> uploadPath, statusCode |-> response.status,
           statusMessage |-> "TikTok API error: " \o response.statusText,
           message |-> "TikTok API error: " \o response.statusText,
           accountInfo |-> accountInfo(account),
           tiktokApiResponse |-> << [ statusCode |-> response.status,
                                      statusMessage |-> response.statusText,
                                      responseBody |-> responseBody ] >>,
           requestDetails |-> requestDetails(account) ])

\* the else branch of the success check
logicalFailure(account, result) ==
    Json(400,
         [ error |-> TRUE, url |-> uploadPath, statusCode |-> 400,
           statusMessage |-> OrElse(result.status_msg, "TikTok upload failed"),
           message |-> OrElse(result.status_msg, "TikTok upload failed"),
           accountInfo |-> accountInfo(account),
           tiktokApiResponse |-> << [ statusCode |-> result.status_code,
                                      statusMessage |-> OrElse(result.status_msg, "Unknown error"),
                                      responseBody |-> result ] >>,
           requestDetails |-> requestDetails(account) ])

\* what fetch rejects with: a network failure, or a header value it refuses
fetchFailed == [ name |-> "TypeError", code |-> UNDEFINED, message |-> "fetch failed" ]

\* what reading result.status_code throws when the body parsed to null
nullResult ==
    [ name |-> "TypeError", code |-> UNDEFINED,
      message |-> "Cannot read properties of null (reading 'status_code')" ]

\* the catch block without the account snapshot
caughtWithoutSnapshot(account, error) ==
    Json(500,
         [ error |-> TRUE, url |-> uploadPath, statusCode |-> 500,
           statusMessage |-> error.message, message |-> error.message,
           originalError |-> << error >> ])

\* the catch block
caught(account, error) ==
    Json(500,
         [ error |-> TRUE, url |-> uploadPath, statusCode |-> 500,
           statusMessage |-> error.message, message |-> error.message,
           accountInfo |-> accountInfo(account),
           originalError |-> << error >> ])

\* updateData without the increment
updateDataNoIncrement(account, now) ==
    [ upload_count |-> account.upload_count, last_upload_at |-> now, updated_at |-> now ]

\* updateData
updateData(account, now) ==
    [ upload_count |-> account.upload_count + 1, last_upload_at |-> now, updated_at |-> now ]

\* the update as an increment made by the store on the stored value
applyUpdateAsIncrement(tbl, id, data) ==
    [ i \in DOMAIN tbl |->
        IF tbl[i].id = id
        THEN [ tbl[i] EXCEPT !.upload_count = @ + 1,
                             !.last_upload_at = data.last_upload_at,
                             !.updated_at = data.updated_at ]
        ELSE tbl[i] ]

\* the update without its .eq('id', id) filter
applyUpdateEveryRow(tbl, id, data) ==
    [ i \in DOMAIN tbl |->
        [ tbl[i] EXCEPT !.upload_count = data.upload_count,
                        !.last_upload_at = data.last_upload_at,
                        !.updated_at = data.updated_at ] ]

\* .update(updateData).eq('id', id)
applyUpdate(tbl, id, data) ==
    [ i \in DOMAIN tbl |->
        IF tbl[i].id = id
        THEN [ tbl[i] EXCEPT !.upload_count = data.upload_count,
                             !.last_upload_at = data.last_upload_at,
                             !.updated_at = data.updated_at ]
        ELSE tbl[i] ]

\* an answer that reports the usage update as failed
persistenceFailureSurfaced(account, result) ==
    Json(500, [ error |-> TRUE, url |-> uploadPath, statusCode |-> 500,
                statusMessage |-> "Account update failed",
                message |-> "Account update failed" ])

\* return res.json({ success, url, accountUsed })
successResponse(account, result) ==
    Json(200, [ success |-> TRUE, url |-> cdnPrefix \o result.data[1].uri,
                accountUsed |-> account.name ])

(* ------------------------------- state --------------------------------- *)

VARIABLES
    NODE_ENV,   \* env.NODE_ENV
    accounts,   \* the table tiktok_accounts: id -> row
    clock,      \* the time new Date() returns
    reqs,       \* slot -> the upload request being handled there
    sent        \* the response written by the last step, <<>> when it wrote none

vars == << NODE_ENV, accounts, clock, reqs, sent >>

\* a slot with no request in it.  Besides the handler's own locals (file,
\* account, headers, response, result, updateData) a slot records what the
\* request has done: the query result, the error its try block threw, the
\* selections, upstream calls and writes it made, whether it has had the
\* handler to itself since it arrived and, if so, the table as it was on
\* arrival.
Idle ==
    [ pc |-> "idle", file |-> <<>>, query |-> <<>>, account |-> <<>>, headers |-> <<>>,
      upstream |-> <<>>, result |-> <<>>, update |-> <<>>, thrown |-> <<>>,
      selections |-> 0, upstreamCalls |-> 0, writes |-> 0,
      alone |-> TRUE, before |-> <<>> ]

\* a handler that goes back to the account query after its first answer
finishedByRetrying(r) ==
    IF r.selections < 2
    THEN [ Idle EXCEPT !.pc = "select", !.file = r.file, !.selections = r.selections,
                       !.upstreamCalls = r.upstreamCalls, !.alone = FALSE ]
    ELSE Idle

\* return res.status(...).json(...): the invocation of the handler is over
finished(r) == Idle

\* what a step writes to its client: the response, with the record of the
\* request it answers (slot 0: answered before the handler's first await)
Emit(req, s, r, response) ==
    [ req |-> req, slot |-> s, status |-> response.status, body |-> response.body,
      query |-> r.query, account |-> r.account, headers |-> r.headers,
      upstream |-> r.upstream, result |-> r.result, update |-> r.update,
      thrown |-> r.thrown,
      selections |-> r.selections, upstreamCalls |-> r.upstreamCalls, writes |-> r.writes,
      alone |-> r.alone, before |-> r.before ]

\* the pools of the accounts table
Pools ==
    { t \in [ AccountIds -> UNION { InitRows(id) : id \in AccountIds } ] :
        \A id \in AccountIds : t[id] \in InitRows(id) }

Init ==
    /\ NODE_ENV = "production"
    /\ accounts \in Pools
    /\ clock = 1
    /\ reqs = [ s \in Slots |-> Idle ]
    /\ sent = <<>>

\* A request arrives and runs through the middleware chain and its route up to
\* the first await of the upload handler (the account query).
Receive(req) ==
    /\ sent = <<>>
    /\ LET out == pipeline(NODE_ENV, req) IN
       IF out.response # <<>>
       THEN /\ sent' = Emit(<< req >>, 0, [ Idle EXCEPT !.before = accounts ],
                            out.response[1])
            /\ UNCHANGED << NODE_ENV, accounts, clock, reqs >>
       ELSE \E s \in Slots :
            /\ reqs[s].pc = "idle"
            /\ \A t \in Slots : t < s => reqs[t].pc # "idle"
            /\ clock < MaxClock
            /\ reqs' = [ t \in Slots |->
                           IF t = s
                           THEN [ Idle EXCEPT !.pc = "select", !.file = out.file,
                                              !.alone = \A u \in Slots : reqs[u].pc = "idle",
                                              !.before = IF \A u \in Slots : reqs[u].pc = "idle"
                                                         THEN accounts ELSE <<>> ]
                           ELSE IF reqs[t].pc = "idle" THEN reqs[t]
                           ELSE [ reqs[t] EXCEPT !.alone = FALSE, !.before = <<>> ] ]
            /\ sent' = <<>>
            /\ UNCHANGED << NODE_ENV, accounts, clock >>

\* The account query resolves; the handler answers 500 or builds the outbound
\* request and calls fetch.
Select(s) ==
    /\ sent = <<>>
    /\ reqs[s].pc = "select"
    /\ \E q \in queryResults(accounts) :
         LET r == [ reqs[s] EXCEPT !.selections = @ + 1, !.query = << q >> ] IN
         IF selectionFailed(q)
         THEN /\ sent' = Emit(<<>>, s, r, selectionFailure(q.error))
              /\ reqs' = [ reqs EXCEPT ![s] = finished(reqs[s]) ]
         ELSE /\ reqs' = [ reqs EXCEPT ![s] =
                             [ r EXCEPT !.pc = "fetch", !.account = q.data,
                                        !.headers = << buildHeaders(q.data[1]) >>,
                                        !.upstreamCalls = @ + 1 ] ]
              /\ sent' = <<>>
    /\ UNCHANGED << NODE_ENV, accounts, clock >>

\* fetch rejects, or resolves to a response that the handler parses and
\* interprets, up to the response it writes or to the usage update it awaits.
Upstream(s) ==
    /\ sent = <<>>
    /\ reqs[s].pc = "fetch"
    /\ \/ /\ sent' = Emit(<<>>, s, [ reqs[s] EXCEPT !.thrown = << fetchFailed >> ],
                          caught(reqs[s].account, fetchFailed))
          /\ reqs' = [ reqs EXCEPT ![s] = finished(reqs[s]) ]
          /\ UNCHANGED clock
       \/ \E response \in UpstreamResponses :
            LET responseBody == parseBody(response.raw)
                r == [ reqs[s] EXCEPT !.upstream = << response >> ]
            IN
            IF ~ ok(response)
            THEN /\ sent' = Emit(<<>>, s, r, transportFailure(r.account, response, responseBody))
                 /\ reqs' = [ reqs EXCEPT ![s] = finished(reqs[s]) ]
                 /\ UNCHANGED clock
            ELSE IF responseBody.type = "null"
            THEN /\ sent' = Emit(<<>>, s, [ r EXCEPT !.thrown = << nullResult >> ],
                                 caught(r.account, nullResult))
                 /\ reqs' = [ reqs EXCEPT ![s] = finished(reqs[s]) ]
                 /\ UNCHANGED clock
            ELSE IF uploadSucceeded(responseBody)
            THEN /\ clock' = clock + 1
                 /\ reqs' = [ reqs EXCEPT ![s] =
                                [ r EXCEPT !.pc = "update", !.result = << responseBody >>,
                                           !.update = << updateData(r.account[1], clock') >> ] ]
                 /\ sent' = <<>>
            ELSE /\ sent' = Emit(<<>>, s, r, logicalFailure(r.account, responseBody))
                 /\ reqs' = [ reqs EXCEPT ![s] = finished(reqs[s]) ]
                 /\ UNCHANGED clock
    /\ UNCHANGED << NODE_ENV, accounts >>

\* The store executes the usage update, or fails to; either way the awaited
\* call resolves (its result is not inspected).
StoreUpdate(s) ==
    /\ sent = <<>>
    /\ reqs[s].pc = "update"
    /\ \/ /\ accounts' = applyUpdate(accounts, reqs[s].account[1].id, reqs[s].update[1])
          /\ reqs' = [ reqs EXCEPT ![s] = [ @ EXCEPT !.pc = "respond", !.writes = @ + 1 ] ]
       \/ /\ accounts' = accounts
          /\ reqs' = [ reqs EXCEPT ![s] = [ @ EXCEPT !.pc = "respond" ] ]
    /\ sent' = <<>>
    /\ UNCHANGED << NODE_ENV, clock >>

\* The handler resumes after the update and writes the success response.
Respond(s) ==
    /\ sent = <<>>
    /\ reqs[s].pc = "respond"
    /\ sent' = Emit(<<>>, s, reqs[s], successResponse(reqs[s].account[1], reqs[s].result[1]))
    /\ reqs' = [ reqs EXCEPT ![s] = finished(reqs[s]) ]
    /\ UNCHANGED << NODE_ENV, accounts, clock >>

\* The response written by the last step has left for the client.
Deliver ==
    /\ sent # <<>>
    /\ sent' = <<>>
    /\ UNCHANGED << NODE_ENV, accounts, clock, reqs >>

Step ==
    \/ Deliver
    \/ \E s \in Slots : Select(s)
    \/ \E s \in Slots : Upstream(s)
    \/ \E s \in Slots : StoreUpdate(s)
    \/ \E s \in Slots : Respond(s)

\* the service under uploads that pass the multipart parser, over every pool
Next ==
    \/ \E req \in UploadRequests : Receive(req)
    \/ Step

Spec == Init /\ [][Next]_vars

\* the service under every kind of request, over pools of eligible rows
InitHttp ==
    /\ NODE_ENV \in NodeEnvs
    /\ accounts \in Pools
    /\ clock = 1
    /\ reqs = [ s \in Slots |-> Idle ]
    /\ sent = <<>>
    /\ \A id \in AccountIds : Eligible(accounts[id]) /\ accounts[id].upload_count = 0
                              /\ accounts[id].cooldown_until = NoTime

NextHttp ==
    \/ \E req \in Requests : Receive(req)
    \/ Step

SpecHttp == InitHttp /\ [][NextHttp]_vars

\* the service under concurrent uploads over pools of selectable rows, from a
\* clock one tick earlier, so that one more upload is admitted
InitRace ==
    /\ NODE_ENV = "production"
    /\ accounts \in Pools
    /\ clock = 0
    /\ reqs = [ s \in Slots |-> Idle ]
    /\ sent = <<>>
    /\ \A id \in AccountIds : Eligible(accounts[id]) /\ accounts[id].cooldown_until = NoTime

SpecRace == InitRace /\ [][Next]_vars

\* Every awaited call settles and the event loop then runs the continuation:
\* a step of a handler that is enabled again and again is taken, and a written
\* response leaves.
Fairness ==
    /\ WF_vars(Deliver)
    /\ \A s \in Slots :
          SF_vars(Select(s) \/ Upstream(s) \/ StoreUpdate(s) \/ Respond(s))

\* the service over a pool of unused selectable rows
InitLive ==
    /\ NODE_ENV = "production"
    /\ accounts \in Pools
    /\ clock = 1
    /\ reqs = [ s \in Slots |-> Idle ]
    /\ sent = <<>>
    /\ \A id \in AccountIds : Eligible(accounts[id]) /\ accounts[id].upload_count = 0
                              /\ accounts[id].cooldown_until = NoTime

\* the service whose store calls and upstream calls all settle
SpecLive == InitLive /\ [][Next]_vars /\ Fairness

(* ------------------------------ properties ---------------------------- *)

\* a row that may be selected, as the data model words it
Selectable(row) ==
    row.status = "active" /\ row.csrftoken # NULL /\ row.sid_guard_ads # NULL

\* the last step answered an upload request from inside the handler
Answered == sent # <<>> /\ sent.slot # 0

\* the last step answered the request it received
AnsweredAtOnce == sent # <<>> /\ sent.slot = 0

\* the request was passed on by the cors and body parsing middleware
PassedOn(req) ==
    /\ \/ req.origin = UNDEFINED
       \/ NODE_ENV = "development"
       \/ req.origin \in defaultOrigins
    /\ req.body.kind # "badjson"

\* the request made no selection, no upstream call and no write, and the
\* table is as it was when the request arrived
PoolUntouched ==
    /\ sent.selections = 0
    /\ sent.upstreamCalls = 0
    /\ sent.writes = 0
    /\ sent.before = accounts

\* C1: the account a request holds after selection is active and has both
\* tokens, and the headers of its upstream call carry that account's tokens.
C1_SelectedIsEligible ==
    \A s \in Slots :
        /\ reqs[s].account # <<>> =>
             /\ Selectable(reqs[s].account[1])
             /\ Selectable(accounts[reqs[s].account[1].id])
        /\ reqs[s].upstreamCalls > 0 =>
             /\ reqs[s].account # <<>>
             /\ reqs[s].headers # <<>>
             /\ reqs[s].headers[1].csrf = reqs[s].account[1].csrftoken
             /\ reqs[s].headers[1].csrf # NULL
             /\ reqs[s].headers[1].Cookie =
                  "tt_csrf_token=" \o accounts[reqs[s].account[1].id].csrftoken
                  \o "; sid_guard=" \o accounts[reqs[s].account[1].id].sid_guard_ads

\* C1 witness: an upstream call is under way while the pool holds a row that
\* is not selectable and whose upload_count is the lowest
C1_Witness ==
    \E s \in Slots, id \in AccountIds :
        /\ reqs[s].pc = "fetch"
        /\ ~ Selectable(accounts[id])
        /\ accounts[id].upload_count < reqs[s].account[1].upload_count

\* C2: a selection step that yields an account yields a selectable row of the
\* table as it is at that moment, whose upload_count is at most that of every
\* selectable row; and it yields one whenever the query fails in no other way.
C2_SelectsLeastLoaded ==
    [][ \A s \in Slots :
          reqs[s].pc = "select" /\ reqs'[s].pc # "select" =>
            IF reqs'[s].pc = "fetch"
            THEN /\ reqs'[s].account[1] = accounts[reqs'[s].account[1].id]
                 /\ Selectable(reqs'[s].account[1])
                 /\ \A id \in AccountIds :
                      Selectable(accounts[id]) =>
                        reqs'[s].account[1].upload_count <= accounts[id].upload_count
            ELSE (\E id \in AccountIds : Selectable(accounts[id])) =>
                   sent'.query[1].error.code # "PGRST116" ]_vars

\* C2 witness: the selected row has a lower upload_count than another
\* selectable row
C2_Witness ==
    \E s \in Slots, id \in AccountIds :
        /\ reqs[s].pc = "fetch"
        /\ reqs[s].account[1] = accounts[reqs[s].account[1].id]
        /\ Selectable(accounts[id])
        /\ accounts[id].upload_count > reqs[s].account[1].upload_count

\* the success response for the request that sent answers
IsSuccessResponse ==
    /\ sent.status = 200
    /\ sent.body.success
    /\ sent.body.url = "https://p16-sg.tiktokcdn.com/obj/" \o sent.upstream[1].raw.json[1].data[1].uri
    /\ sent.body.accountUsed = sent.account[1].name

\* the upstream answered 2xx with status_code 0 and a non-empty data.uri
UpstreamSaidSuccess ==
    /\ sent.upstream # <<>>
    /\ sent.upstream[1].status \in 200 .. 299
    /\ sent.upstream[1].raw.json # <<>>
    /\ sent.upstream[1].raw.json[1].type = "object"
    /\ sent.upstream[1].raw.json[1].status_code = 0
    /\ sent.upstream[1].raw.json[1].data # <<>>
    /\ sent.upstream[1].raw.json[1].data[1].uri \notin { UNDEFINED, "" }

\* C3 as claimed: a request that had the handler to itself and got an upstream
\* success is answered 200 {success, url, accountUsed} and the selected row's
\* stored upload_count is then its value on arrival plus 1.
C3_Original ==
    (Answered /\ sent.alone /\ UpstreamSaidSuccess) =>
        /\ IsSuccessResponse
        /\ accounts[sent.account[1].id].upload_count
             = sent.before[sent.account[1].id].upload_count + 1

\* C3 amended: such a request is answered 200 {success, url, accountUsed}, and
\* when the store applied its usage update the selected row's stored
\* upload_count is its value on arrival plus 1.
C3_SuccessCountsOnce ==
    (Answered /\ sent.alone /\ UpstreamSaidSuccess) =>
        /\ IsSuccessResponse
        /\ sent.writes = 1 =>
             accounts[sent.account[1].id].upload_count
               = sent.before[sent.account[1].id].upload_count + 1

\* C3 witness: a lone request is answered with success after its update was
\* applied to a row that had been used before
C3_Witness ==
    /\ Answered /\ sent.alone /\ UpstreamSaidSuccess
    /\ sent.writes = 1
    /\ sent.before[sent.account[1].id].upload_count = 1
    /\ accounts[sent.account[1].id].upload_count = 2

\* the accountInfo of the response is the snapshot of the selected account
CarriesSnapshot ==
    /\ sent.account # <<>>
    /\ sent.body.accountInfo # <<>>
    /\ sent.body.accountInfo[1].id = sent.account[1].id
    /\ sent.body.accountInfo[1].name = sent.account[1].name
    /\ sent.body.accountInfo[1].status = sent.account[1].status
    /\ sent.body.accountInfo[1].uploadCount = sent.account[1].upload_count
    /\ sent.body.accountInfo[1].lastUploadAt = sent.account[1].last_upload_at
    /\ sent.body.accountInfo[1].cooldownUntil = sent.account[1].cooldown_until

\* the request wrote nothing: it issued no update, and a request that had the
\* handler to itself leaves the table as it found it
WroteNothing ==
    /\ sent.writes = 0
    /\ sent.update = <<>>
    /\ sent.alone => accounts = sent.before

\* C4: an upstream status outside 200..299 is the status of the answer, whose
\* body has error true, that statusCode and the selected account's id; the
\* request wrote nothing.
C4_TransportFailureForwarded ==
    (Answered /\ sent.upstream # <<>> /\ sent.upstream[1].status \notin 200 .. 299) =>
        /\ sent.status = sent.upstream[1].status
        /\ sent.body.error
        /\ sent.body.statusCode = sent.upstream[1].status
        /\ CarriesSnapshot
        /\ WroteNothing

\* C4 witness: a 403 whose body reads as a success is forwarded as 403
C4_Witness ==
    /\ Answered
    /\ sent.upstream # <<>>
    /\ sent.upstream[1].status = 403
    /\ sent.upstream[1].raw.json # <<>>
    /\ sent.upstream[1].raw.json[1].status_code = 0
    /\ sent.status = 403
    /\ sent.alone

\* the upstream body has status_code 0 and a data.uri key
HasSuccessShape(raw) ==
    /\ raw.json # <<>>
    /\ raw.json[1].type = "object"
    /\ raw.json[1].status_code = 0
    /\ raw.json[1].data # <<>>
    /\ raw.json[1].data[1].uri # UNDEFINED

\* C5 as claimed: an upstream 2xx whose body lacks status_code 0 or data.uri,
\* whatever its shape, is answered 400 with the selected account's snapshot,
\* and the request wrote nothing.
C5_LogicalFailureIs400 ==
    (/\ Answered
     /\ sent.upstream # <<>>
     /\ sent.upstream[1].status \in 200 .. 299
     /\ ~ HasSuccessShape(sent.upstream[1].raw)) =>
        /\ sent.status = 400
        /\ CarriesSnapshot
        /\ WroteNothing

\* the request is an upload
IsUpload(req) == req.route = "POST /api/upload/tiktok"

\* C6 as claimed, for the requests whose body the parsers accept: an upload
\* request with no file part is answered 400 'No file provided' without a
\* selection, an upstream call or a write.
C6_Original ==
    (/\ AnsweredAtOnce
     /\ IsUpload(sent.req[1])
     /\ sent.req[1].body.parts = <<>>
     /\ sent.req[1].body.kind # "badjson") =>
        /\ sent.status = 400
        /\ sent.body.message = "No file provided"
        /\ PoolUntouched

\* an upload request with no file part is never taken into the handler's
\* awaits: it is answered by the step that receives it
NoFileNeverAwaits ==
    \A s \in Slots : reqs[s].pc # "idle" => reqs[s].file # <<>>

\* C6 amended: an upload request with no file part makes no selection, no
\* upstream call and no write; when the cors and body parsing middleware pass
\* it on it is answered 400 'No file provided'.
C6_NoFileRejected ==
    /\ NoFileNeverAwaits
    /\ (AnsweredAtOnce /\ IsUpload(sent.req[1]) /\ sent.req[1].body.parts = <<>>) =>
         /\ PoolUntouched
         /\ PassedOn(sent.req[1]) =>
              /\ sent.status = 400
              /\ sent.body.message = "No file provided"

\* C6 witness: a multipart upload without a file part was answered 400 while
\* another upload was awaiting its upstream call
C6_Witness ==
    /\ AnsweredAtOnce
    /\ IsUpload(sent.req[1])
    /\ sent.req[1].body.kind = "multipart"
    /\ sent.req[1].body.parts = <<>>
    /\ sent.status = 400
    /\ \E s \in Slots : reqs[s].pc = "fetch"

\* the request reaches multer with a part in the field 'file'
ReachesFileCheck(req) ==
    /\ IsUpload(req)
    /\ PassedOn(req)
    /\ req.body.parts # <<>>
    /\ req.body.parts[1].fieldname = "file"

\* C7 as claimed, for the requests that reach multer with a part in the field
\* 'file': a file over 10 MiB is answered 400 'File too large. Maximum size is
\* 10MB.' without a selection, an upstream call or a write.
C7_OversizeIs400 ==
    (/\ AnsweredAtOnce
     /\ ReachesFileCheck(sent.req[1])
     /\ sent.req[1].body.parts[1].size > 10 * 1024 * 1024) =>
        /\ sent.status = 400
        /\ sent.body.message = "File too large. Maximum size is 10MB."
        /\ PoolUntouched

\* C8 as claimed, for the requests that reach multer with a part in the field
\* 'file': a MIME type that does not begin with image/ is answered 400 without
\* a selection, an upstream call or a write.
C8_NonImageIs400 ==
    (/\ AnsweredAtOnce
     /\ ReachesFileCheck(sent.req[1])
     /\ sent.req[1].body.parts[1].mimetype[1] # "image") =>
        /\ sent.status = 400
        /\ PoolUntouched

\* C9 as claimed, for the requests that carry no body: GET /health is answered
\* 200 with status 'ok' without a selection, an upstream call or a write.
C9_Original ==
    (/\ AnsweredAtOnce
     /\ sent.req[1].route = "GET /health"
     /\ sent.req[1].body.kind = "none") =>
        /\ sent.status = 200
        /\ sent.body.status = "ok"
        /\ PoolUntouched

\* C9 amended: GET /health makes no selection, no upstream call and no write;
\* when the cors and body parsing middleware pass it on it is answered 200 with
\* status 'ok', whatever the pool and the requests in flight.
C9_HealthOk ==
    (AnsweredAtOnce /\ sent.req[1].route = "GET /health") =>
        /\ PoolUntouched
        /\ PassedOn(sent.req[1]) =>
             /\ sent.status = 200
             /\ sent.body.status = "ok"

\* C9 witness: GET /health from an origin that is in no list was answered 200
\* in development while an upload was awaiting its usage update
C9_Witness ==
    /\ AnsweredAtOnce
    /\ sent.req[1].route = "GET /health"
    /\ sent.req[1].origin = "https://elsewhere.example"
    /\ sent.status = 200
    /\ \E s \in Slots : reqs[s].pc = "update"

\* C10: when the query returned an error or the table holds no selectable row,
\* the request is answered 500 with the error's message as accountError ('No
\* account found' when the message is empty); it made no upstream call and
\* wrote nothing.
C10_SelectionFailureIs500 ==
    (/\ Answered
     /\ \/ sent.query[1].error # NoError
        \/ ~ \E id \in AccountIds : Selectable(accounts[id])) =>
        /\ sent.status = 500
        /\ sent.body.error
        /\ sent.body.accountError =
             ( IF sent.query[1].error.message = "" THEN "No account found"
               ELSE sent.query[1].error.message )
        /\ sent.query[1].error # NoError
        /\ sent.account = <<>>
        /\ sent.upstreamCalls = 0
        /\ WroteNothing

\* C10 witness: a pool with no selectable row answered 500 with the message of
\* the empty result
C10_Witness ==
    /\ Answered
    /\ ~ \E id \in AccountIds : Selectable(accounts[id])
    /\ sent.status = 500
    /\ sent.body.accountError = "JSON object requested, multiple (or no) rows returned"

\* the try block of the request that sent answers threw after its account was
\* selected: fetch rejected, or the parsed body could not be interpreted
Threw ==
    \/ sent.thrown # <<>>
    \/ sent.account # <<>> /\ sent.upstream = <<>>
    \/ /\ sent.upstream # <<>>
       /\ sent.upstream[1].status \in 200 .. 299
       /\ sent.upstream[1].raw.json # <<>>
       /\ sent.upstream[1].raw.json[1].type = "null"

\* C11: a step in which a request's try block throws after the account was
\* selected answers that request 500 with the error's message and the selected
\* account's snapshot; the request issued no update and wrote nothing, the
\* step leaves the table and every other request in flight as they were (the
\* process keeps serving), and the handler is free for the next request.
C11_CaughtIs500 ==
    [][ (sent' # <<>> /\ sent'.slot # 0 /\ Threw') =>
          /\ sent'.thrown # <<>>
          /\ sent'.status = 500
          /\ sent'.body.error
          /\ sent'.body.statusCode = 500
          /\ sent'.body.message = sent'.thrown[1].message
          /\ sent'.body.statusMessage = sent'.thrown[1].message
          /\ CarriesSnapshot'
          /\ WroteNothing'
          /\ accounts' = accounts
          /\ reqs'[sent'.slot].pc = "idle"
          /\ \A t \in Slots : t # sent'.slot => reqs'[t] = reqs[t] ]_vars

\* C11 witness: a rejected fetch was answered 500 with the snapshot of an
\* account that had been used before, while another upload was awaiting its
\* usage update
C11_Witness ==
    /\ Answered
    /\ sent.thrown # <<>>
    /\ sent.thrown[1].message = "fetch failed"
    /\ sent.status = 500
    /\ sent.body.accountInfo[1].uploadCount = 1
    /\ \E s \in Slots : reqs[s].pc = "update"

\* the request that sent answers selected an account and its upload failed
\* upstream: fetch rejected, the status was outside 2xx, or the body did not
\* confirm the upload
UpstreamFailed == sent.account # <<>> /\ ~ UpstreamSaidSuccess

\* C12: a request in the handler has made at most one selection and at most
\* one upstream call; a request whose upload failed upstream is answered with
\* a failure after exactly one selection and one upstream call, and its
\* handler is over.
C12_NoRetry ==
    /\ \A s \in Slots :
          /\ reqs[s].selections <= 1
          /\ reqs[s].upstreamCalls <= reqs[s].selections
          /\ reqs[s].pc = "select" => reqs[s].selections = 0
    /\ Answered =>
          /\ sent.selections = 1
          /\ sent.upstreamCalls <= 1
          /\ reqs[sent.slot].pc = "idle"
          /\ UpstreamFailed =>
                /\ sent.upstreamCalls = 1
                /\ sent.status # 200
                /\ sent.body.error
                /\ ~ sent.body.success

\* C12 witness: a logical failure was answered 400 while the pool held
\* another selectable account
C12_Witness ==
    /\ Answered
    /\ UpstreamFailed
    /\ sent.status = 400
    /\ sent.selections = 1
    /\ sent.upstreamCalls = 1
    /\ \E id \in AccountIds : id # sent.account[1].id /\ Selectable(accounts[id])

\* C13 as claimed: no step lowers the stored upload_count of an account,
\* whatever the interleaving of the uploads in flight.
C13_CountNeverDecreases ==
    [][ \A id \in AccountIds :
          accounts'[id].upload_count >= accounts[id].upload_count ]_vars

\* the rows agree on every column but upload_count, last_upload_at, updated_at
SameButUsage(a, b) ==
    /\ a.id = b.id
    /\ a.name = b.name
    /\ a.status = b.status
    /\ a.csrftoken = b.csrftoken
    /\ a.sid_guard_ads = b.sid_guard_ads
    /\ a.cooldown_until = b.cooldown_until

\* the request in slot s is in its success branch: its upstream call answered
\* 2xx with status_code 0 and a non-empty data.uri
InSuccessBranch(s) ==
    /\ reqs[s].upstream # <<>>
    /\ reqs[s].upstream[1].status \in 200 .. 299
    /\ reqs[s].upstream[1].raw.json # <<>>
    /\ reqs[s].upstream[1].raw.json[1].status_code = 0
    /\ reqs[s].upstream[1].raw.json[1].data # <<>>
    /\ reqs[s].upstream[1].raw.json[1].data[1].uri \notin { UNDEFINED, "" }

\* C14: a step keeps the set of accounts; a row it changes is the row selected
\* by a request in its success branch whose usage update that step executes,
\* the row keeps its id, name, status, tokens and cooldown_until, and no other
\* row changes; a step that writes a failure response changes no row, and the
\* request it answers has written nothing.
C14_WritesOnlyUsageOfSelected ==
    [][ /\ DOMAIN accounts' = DOMAIN accounts
        /\ \A id \in AccountIds :
              accounts'[id] # accounts[id] =>
                /\ \E s \in Slots :
                      /\ reqs[s].pc = "update"
                      /\ reqs'[s].pc = "respond"
                      /\ InSuccessBranch(s)
                      /\ reqs[s].account[1].id = id
                      /\ reqs'[s].writes = reqs[s].writes + 1
                /\ SameButUsage(accounts'[id], accounts[id])
                /\ \A other \in AccountIds : other # id => accounts'[other] = accounts[other]
        /\ (sent' # <<>> /\ sent'.status # 200) =>
              /\ accounts' = accounts
              /\ sent'.writes = 0
              /\ sent'.update = <<>>
              /\ sent'.alone => accounts' = sent'.before ]_vars

\* C14 witness: a lone request's update changed the usage columns of the row
\* it selected, a row with a cooldown_until in the future, while the other row
\* is as it was when the request arrived
C14_Witness ==
    \E s \in Slots :
        /\ reqs[s].pc = "respond"
        /\ reqs[s].alone
        /\ reqs[s].writes = 1
        /\ reqs[s].before[reqs[s].account[1].id].cooldown_until = Future
        /\ accounts[reqs[s].account[1].id].upload_count = 1
        /\ accounts[reqs[s].account[1].id].last_upload_at = clock
        /\ accounts[reqs[s].account[1].id].cooldown_until = Future
        /\ \A other \in AccountIds :
              other # reqs[s].account[1].id => accounts[other] = reqs[s].before[other]

\* the requests in slots s and t read the same row with the same upload_count,
\* both uploads succeeded upstream and both usage updates were applied
BothCounted(s, t) ==
    /\ s # t
    /\ reqs[s].pc = "respond" /\ reqs[t].pc = "respond"
    /\ InSuccessBranch(s) /\ InSuccessBranch(t)
    /\ reqs[s].writes = 1 /\ reqs[t].writes = 1
    /\ reqs[s].account[1].id = reqs[t].account[1].id
    /\ reqs[s].account[1].upload_count = reqs[t].account[1].upload_count

\* C15: when two requests in flight read the same row with the same
\* upload_count and both of their usage updates have been applied after an
\* upstream success, the stored upload_count is the count they read plus 1,
\* not plus 2: one increment is lost.
C15_LostUpdate ==
    \A s \in Slots, t \in Slots :
        BothCounted(s, t) =>
            accounts[reqs[s].account[1].id].upload_count
              = reqs[s].account[1].upload_count + 1

\* C15 witness: two requests in flight both selected the unused account of a
\* pool whose other account is selectable and more loaded, both uploads
\* succeeded, both updates were applied, and the stored upload_count is 1
C15_Witness ==
    \E s \in Slots, t \in Slots, other \in AccountIds :
        /\ BothCounted(s, t)
        /\ reqs[s].account[1].upload_count = 0
        /\ accounts[reqs[s].account[1].id].upload_count = 1
        /\ other # reqs[s].account[1].id
        /\ Selectable(accounts[other])
        /\ accounts[other].upload_count = 1
        /\ accounts[other].last_upload_at = NoTime

\* the request that sent answers issued its usage update after an upstream
\* success and the store did not apply it
UpdateNotPersisted ==
    /\ Answered
    /\ UpstreamSaidSuccess
    /\ sent.update # <<>>
    /\ sent.writes = 0

\* C16: a request whose upload the upstream confirmed and whose usage update
\* the store did not apply is answered 200 {success, url, accountUsed} with no
\* error in the body; when it had the handler to itself, the table, and so the
\* selected account's upload_count, is as it was when the request arrived.
C16_PersistenceFailureIsSuccess ==
    UpdateNotPersisted =>
        /\ IsSuccessResponse
        /\ ~ sent.body.error
        /\ sent.body.message = UNDEFINED
        /\ sent.alone =>
              /\ accounts = sent.before
              /\ accounts[sent.account[1].id].upload_count = sent.account[1].upload_count

\* C16 witness: a lone request on an account used once before was answered 200
\* after its update was not applied, and the stored upload_count is still 1
C16_Witness ==
    /\ UpdateNotPersisted
    /\ sent.alone
    /\ sent.status = 200
    /\ sent.update[1].upload_count = 2
    /\ accounts[sent.account[1].id].upload_count = 1

\* the selectable rows of the lowest upload_count
LeastLoaded ==
    { id \in AccountIds :
        /\ Selectable(accounts[id])
        /\ \A other \in AccountIds :
              Selectable(accounts[other]) =>
                accounts[id].upload_count <= accounts[other].upload_count }

\* C17: when every least-loaded selectable row has a cooldown_until in the
\* future, a selection step still yields one of these rows unless the store
\* itself fails; no step changes a cooldown_until; and a failure response
\* that names an account echoes the cooldown_until of the row as selected.
C17_CooldownIgnored ==
    [][ /\ \A id \in AccountIds :
              accounts'[id].cooldown_until = accounts[id].cooldown_until
        /\ \A s \in Slots :
              (/\ reqs[s].pc = "select"
               /\ reqs'[s].pc # "select"
               /\ LeastLoaded # {}
               /\ \A id \in LeastLoaded : accounts[id].cooldown_until > clock) =>
                 IF reqs'[s].pc = "fetch"
                 THEN /\ reqs'[s].account[1].id \in LeastLoaded
                      /\ reqs'[s].account[1].cooldown_until > clock
                      /\ reqs'[s].upstreamCalls = 1
                 ELSE sent'.query[1].error.code # "PGRST116"
        /\ (sent' # <<>> /\ sent'.account # <<>> /\ sent'.status # 200) =>
              sent'.body.accountInfo[1].cooldownUntil = sent'.account[1].cooldown_until ]_vars

\* C17 witness: a request is calling upstream with an account whose
\* cooldown_until is in the future, chosen for its lower upload_count over a
\* selectable account that has no cooldown
C17_Witness ==
    \E s \in Slots, other \in AccountIds :
        /\ reqs[s].pc = "fetch"
        /\ reqs[s].account[1].cooldown_until > clock
        /\ accounts[reqs[s].account[1].id].cooldown_until > clock
        /\ Selectable(accounts[other])
        /\ accounts[other].cooldown_until = NoTime
        /\ accounts[other].upload_count > reqs[s].account[1].upload_count

\* the last step wrote a response for the request in slot s
AnsweredIn(s) == sent # <<>> /\ sent.slot = s

\* a request in the handler is eventually answered
EventuallyAnswered ==
    \A s \in Slots : (reqs[s].pc # "idle") ~> AnsweredIn(s)

\* The step that answers a request ends its handler, which ends in no other
\* way; a request answered before the first await never enters the handler's
\* awaits; a 200 is written only by a handler whose usage update has been
\* issued and has returned.
AnswerEndsHandler ==
    [][ /\ \A s \in Slots :
              /\ AnsweredIn(s)' => reqs[s].pc # "idle" /\ reqs'[s].pc = "idle"
              /\ (reqs[s].pc # "idle" /\ reqs'[s].pc = "idle") => AnsweredIn(s)'
              /\ (AnsweredIn(s)' /\ sent'.status = 200) =>
                    /\ reqs[s].pc = "respond"
                    /\ reqs[s].update # <<>>
                    /\ sent'.update = reqs[s].update
                    /\ InSuccessBranch(s)
        /\ AnsweredIn(0)' => reqs' = reqs ]_vars

\* C18: a request in the handler is eventually answered when its awaited
\* calls settle, and it is answered once: the answering step ends the
\* handler, so no second response follows, and a success response is written
\* only after the request's usage update has been issued and has returned.
C18_AnsweredExactlyOnce == EventuallyAnswered /\ AnswerEndsHandler

\* C18 witness: a 200 was written for a request whose usage update had been
\* issued and applied, while another request was still awaiting its upstream
\* call
C18_Witness ==
    /\ Answered
    /\ sent.status = 200
    /\ sent.update # <<>>
    /\ sent.writes = 1
    /\ reqs[sent.slot].pc = "idle"
    /\ \E t \in Slots : reqs[t].pc = "fetch"

====
